---- MODULE Spec2Model ----
(***************************************************************************)
(* Tile-region negotiation through a fan-out node.                         *)
(*                                                                         *)
(* The model follows tiling/split_stage.cpp: a graph of SplitStage nodes   *)
(* and single-input branch stages, the per-node state input_interval_ and  *)
(* count_, and the operations Reset, PushStartUp, PushEndDown, PushEndUp   *)
(* and PushCropDown.  Every push is a synchronous call chain, so one       *)
(* action is one call made from outside the graph together with all the    *)
(* nested calls it makes; the calls are recorded, in order, in callLog.    *)
(*                                                                         *)
(* The Interval type and the branch stages are not part of split_stage.cpp *)
(* and are modelled from their description: an Interval is a pair          *)
(* (offset, end); a branch stage answers PushEndDown(e) with the largest   *)
(* aligned end it can accept that is no greater than e.  What a branch can *)
(* accept depends on the stages below it, so its cap and alignment are an  *)
(* input of each PushEndDown call chain, fixed for the whole chain.        *)
(***************************************************************************)
EXTENDS Integers, Sequences, FiniteSets, TLC

\* Pixel positions range over 0..MaxVal.
MaxVal == 2
\* Number of branch (leaf) stages that can be built.
MaxLeaves == 2
\* Cap on count_ for a node whose counter can never reach its branch count.
MaxCount == 3
\* Cap on the PushStartUp calls tallied for one node between two Resets.
MaxCalls == 5
\* Frame timestamps range over 1..MaxTs.
MaxTs == 3
\* Number of requests queued in one run of the camera.
MaxRequests == 2
\* Width in bits of unsigned int and int in the model of the buffer counts
\* (32 in the program).
WordBits == 4

VARIABLES
    exists,          \* stages constructed so far
    upstream,        \* upstream_ of every stage
    downstream,      \* downstream_ of every SplitStage, in registration order
    input_interval,  \* input_interval_ of every SplitStage
    count,           \* count_ of every SplitStage
    wasReset,        \* SplitStages on which Reset has run
    aborted,         \* an assertion failed: the process has stopped
    lastOp,          \* the call made from outside the graph in the last step
    callLog,         \* the calls of the last step, in the order they were made
    round,           \* history: PushStartUp arguments since count_ was last 0
    prevCrop,        \* history: the last completed PushCropDown since Reset
    run,             \* history: progress through Reset, Phase 1, 2, 3
    endTrace,        \* the ends written to input_interval_ in the last step
    tally,           \* history: PushStartUp calls received and made since Reset
    tracking         \* whether the histories are being recorded

\* Vc4CameraData and PipelineHandlerVc4 (vc4.cpp).
VARIABLES
    state,           \* state_
    requestQueue,    \* requestQueue_: sequence numbers of the queued requests
    bayerQueue,      \* bayerQueue_: timestamps of the queued bayer frames
    embeddedQueue,   \* embeddedQueue_: timestamps of the queued embedded buffers
    sensorMetadata,  \* sensorMetadata_
    pending,         \* callbacks the IPA and the ISP still owe the handler
    clock,           \* last timestamp and sequence number handed out
    events,          \* what the last handler signalled, returned or handed back
    vcOp,            \* the last handler called, with its argument
    lastTry,         \* what the last tryRunPipeline found on entry
    lastFind,        \* what the last findMatchingBuffers found and did
    config,          \* config_
    configRet,       \* what platformPipelineConfigure returned
    numBuffers       \* the buffer counts prepareBuffers asked for

splitvars == <<exists, upstream, downstream, input_interval,
               count, wasReset, aborted, lastOp, callLog, round, prevCrop,
               run, endTrace, tally, tracking>>

pipevars == <<state, requestQueue, bayerQueue, embeddedQueue, sensorMetadata,
              pending, clock, events, vcOp, lastTry, lastFind>>

bufvars == <<config, configRet, numBuffers>>

vars == <<exists, upstream, downstream, input_interval,
          count, wasReset, aborted, lastOp, callLog, round, prevCrop, run,
          endTrace, tally, tracking,
          state, requestQueue, bayerQueue, embeddedQueue, sensorMetadata,
          pending, clock, events, vcOp, lastTry, lastFind,
          config, configRet, numBuffers>>

----------------------------------------------------------------------------
\* Stage identities.

Vals == 0..MaxVal
Aligns == {1, 2}
LeafNames == <<"L1", "L2", "L3", "L4", "L5", "L6">>
Leaves == {LeafNames[k] : k \in 1..MaxLeaves}
Splits == {"S0", "S1"}
Stages == Splits \cup Leaves
\* "src" is the upstream neighbour of S0; "ext" is a caller outside the graph.

Min2(a, b) == IF a < b THEN a ELSE b
SetMin(S) == CHOOSE x \in S : \A y \in S : x <= y
Range(q) == {q[i] : i \in 1..Len(q)}

----------------------------------------------------------------------------
\* Interval: the half-open pixel range [offset, end).

Interval(offset, end) == [offset |-> offset, end |-> end]
\* Interval(offset): a single point, used before the end is known.
IntervalPoint(offset) == [offset |-> offset, end |-> offset]
End(iv) == iv.end
SetEnd(iv, end) == [iv EXCEPT !.end = end]
\* interval |= offset: widen the start leftward to the smaller offset.
UnionLeft(iv, offset) == [iv EXCEPT !.offset = Min2(iv.offset, offset)]
\* a > b: a is a superset of, or equal to, b.
Extends(a, b) == a.offset <= b.offset /\ a.end >= b.end

Intervals == [offset : Vals, end : Vals]

----------------------------------------------------------------------------
\* Records of calls and of history.

Call(from, to, op, a, b, ret) ==
    [from |-> from, to |-> to, op |-> op, a |-> a, b |-> b, ret |-> ret]

\* The calls of a log made by stage s, and those received by stage s.
FromCalls(log, s, op) == SelectSeq(log, LAMBDA c : c.from = s /\ c.op = op)
ToCalls(log, s, op) == SelectSeq(log, LAMBDA c : c.to = s /\ c.op = op)

\* round: vals are the PushStartUp arguments since count_ was last 0, pure
\* says that no PushCropDown replaced the interval among them, done holds the
\* arguments of the round that the last step completed.  parts holds, for
\* every argument of vals, the caller and the starts of the branch stages
\* behind it (one start for a branch stage, the starts of a whole round for
\* a fan-out node); doneParts is to parts what done is to vals.
NoRound == [vals |-> <<>>, pure |-> TRUE, done |-> <<>>,
            parts |-> <<>>, doneParts |-> <<>>]
\* prevCrop: the interval of the last completed PushCropDown since Reset,
\* and whether a call has overwritten an end of the interval since.
NoCrop == [set |-> FALSE, offset |-> 0, end |-> 0, touched |-> FALSE]

----------------------------------------------------------------------------
\* Branch stage (single input, ends the chain below it).

\* What a branch can accept: at most cap pixels, ending on a multiple of
\* align; the cap itself is aligned.
LeafKinds == {k \in [cap : Vals, align : Aligns] :
                 k.cap % k.align = 0 /\ k.cap >= k.align - 1}
PassThrough == [cap |-> MaxVal, align |-> 1]
AlignDown(x, align) == x - (x % align)
LeafAccept(kind, input_end) == AlignDown(Min2(input_end, kind.cap), kind.align)

\* The branch parameters of a call chain that asks no branch for an end.
NoKinds == [d \in Leaves |-> PassThrough]

\* The call made from outside the graph, with its arguments.
Op(op, node, a, b, kinds) ==
    [op |-> op, node |-> node, a |-> a, b |-> b, kinds |-> kinds]

\* run: the inputs of Reset, n PushStartUp, PushEndDown, PushCropDown as
\* long as the node has received exactly these, in this order, since Reset;
\* dirty says that Reset interrupted an unfinished round.
RunOff == [ok |-> FALSE, dirty |-> FALSE, phase |-> 0, starts |-> <<>>,
           e |-> 0, kinds |-> NoKinds, offset |-> 0, end |-> 0]
RunFresh(dirty) == [RunOff EXCEPT !.ok = TRUE, !.dirty = dirty, !.phase = 1]

\* tally: the PushStartUp calls a node has received and has made since its
\* last Reset, counted only where on is set.
NoTally == [on |-> FALSE, recv |-> 0, fwd |-> 0]
TallyAfter(y, log, s) ==
    IF y.on
    THEN [y EXCEPT !.recv = @ + Len(ToCalls(log, s, "PushStartUp")),
                   !.fwd = @ + Len(FromCalls(log, s, "PushStartUp"))]
    ELSE y

\* The part of the state that a call chain reads and writes.
Cur(kinds) == [iv |-> input_interval, count |-> count, log |-> <<>>,
               aborted |-> aborted, round |-> round, prevCrop |-> prevCrop,
               run |-> run, kinds |-> kinds,
               ends |-> [s \in Splits |-> <<>>]]

NumBranches(s) == Len(downstream[s])

RECURSIVE PushStartUp(_, _, _, _)
RECURSIVE PushEndDown(_, _, _, _)
RECURSIVE ProbeBranches(_, _, _, _)
RECURSIVE BroadcastBranches(_, _, _, _)
RECURSIVE PushCropDown(_, _, _, _)
RECURSIVE CropBranches(_, _, _, _)

----------------------------------------------------------------------------
\* SplitStage::SetDownstream

SetDownstreamFront(ds, s, stage) == [ds EXCEPT ![s] = <<stage>> \o @]

\* downstream_.push_back(stage)
SetDownstream(ds, s, stage) == [ds EXCEPT ![s] = Append(@, stage)]

----------------------------------------------------------------------------
\* SplitStage::Reset

ResetStateKeepCount(iv, c) == [iv |-> Interval(0, 0), count |-> c]

\* input_interval_ = Interval(0, 0); count_ = 0;
ResetState(iv, c) == [iv |-> Interval(0, 0), count |-> 0]

----------------------------------------------------------------------------
\* SplitStage::PushStartUp

CollectStartLast(c, iv, output_start) == IntervalPoint(output_start)

CollectStartWiden(c, iv, output_start) == UnionLeft(iv, output_start)

\* if (count_++ == 0) input_interval_ = Interval(output_start);
\* else input_interval_ |= output_start;
CollectStart(c, iv, output_start) ==
    IF c = 0 THEN IntervalPoint(output_start) ELSE UnionLeft(iv, output_start)

BarrierFullOrOver(c, n) == c >= n

BarrierEveryCall(c, n) == TRUE

BarrierOneShort(c, n) == c = n - 1

BarrierFullOrEmpty(c, n) == c = n \/ n = 0

\* if (count_ == downstream_.size())
BarrierFull(c, n) == c = n

CountAfterKept(c1, full) == c1

\* count_ after the call: incremented (line 43), zeroed when the barrier is full
CountAfter(c1, full) == IF full THEN 0 ELSE c1

ForwardedStartEnd(iv) == iv.end

\* the value sent upstream: input_interval_.offset
ForwardedStart(iv) == iv.offset

\* The starts of the branch stages behind the parts of a round, in order.
RECURSIVE LeafStarts(_)
LeafStarts(parts) ==
    IF parts = <<>> THEN <<>>
    ELSE Head(parts).leaf \o LeafStarts(Tail(parts))

\* The caller of a PushStartUp and the starts of the branch stages behind it;
\* a fan-out node whose round a PushCropDown interrupted stands for none.
Part(rounds, from, output_start) ==
    [from |-> from,
     leaf |-> IF from \in Splits THEN LeafStarts(rounds[from].doneParts)
              ELSE <<output_start>>]

RoundAfterStart(r, full, output_start, part) ==
    IF ~tracking THEN NoRound
    ELSE IF full
    THEN [NoRound EXCEPT
            !.done = IF r.pure THEN Append(r.vals, output_start) ELSE <<>>,
            !.doneParts = IF r.pure /\ part.leaf # <<>>
                          THEN Append(r.parts, part) ELSE <<>>]
    ELSE [r EXCEPT !.vals = Append(@, output_start), !.done = <<>>,
                   !.parts = Append(@, part), !.doneParts = <<>>,
                   !.pure = @ /\ part.leaf # <<>>]

RoundAfterEnd(r) == [r EXCEPT !.done = <<>>, !.doneParts = <<>>]

RoundAfterCrop(r) ==
    [r EXCEPT !.done = <<>>, !.doneParts = <<>>, !.pure = @ /\ r.vals = <<>>]

\* phase 4 marks the PushStartUp that follows a complete Phase 1 directly.
RunAfterStart(r, n, output_start) ==
    IF r.ok /\ r.phase = 1 /\ Len(r.starts) < n
    THEN [r EXCEPT !.starts = Append(@, output_start)]
    ELSE IF r.ok /\ r.phase = 1 /\ n >= 1
    THEN [RunOff EXCEPT !.phase = 4, !.starts = r.starts]
    ELSE RunOff

\* PushEndDown, and a PushStartUp that opens a round, overwrite an end of the
\* recorded interval.
TouchCrop(c, overwrites) ==
    IF c.set /\ overwrites THEN [c EXCEPT !.touched = TRUE] ELSE c

PushStartUp(st, from, s, output_start) ==
    LET logged == [st EXCEPT !.log =
                      Append(@, Call(from, s, "PushStartUp", output_start, 0, 0))]
    IN  IF s \notin Splits THEN logged
        ELSE
          LET iv == CollectStart(st.count[s], st.iv[s], output_start)
              c1 == st.count[s] + 1
              n == NumBranches(s)
              full == BarrierFull(c1, n)
              upd == [logged EXCEPT
                        !.iv[s] = iv,
                        !.count[s] = CountAfter(c1, full),
                        !.round[s] = RoundAfterStart(@, full, output_start,
                                        Part(st.round, from, output_start)),
                        !.run[s] = RunAfterStart(@, n, output_start),
                        !.prevCrop[s] = TouchCrop(@, st.count[s] = 0)]
          IN  IF full
              THEN PushStartUp(upd, s, upstream[s], ForwardedStart(iv))
              ELSE upd

----------------------------------------------------------------------------
\* SplitStage::PushEndDown and SplitStage::PushEndUp

ProbeEndRunning(iv, input_end) == End(iv)

\* the value of the first round: d->PushEndDown(input_end, dir)
ProbeEnd(iv, input_end) == input_end

ClampEndLast(iv, branch_end) == SetEnd(iv, branch_end)

ClampEndAfterStart(iv, branch_end) ==
    IF branch_end < End(iv) /\ branch_end > iv.offset
    THEN SetEnd(iv, branch_end) ELSE iv

ClampEndGreater(iv, branch_end) ==
    IF branch_end > End(iv) THEN SetEnd(iv, branch_end) ELSE iv

\* if (branch_end < input_interval_.End()) input_interval_.SetEnd(branch_end);
ClampEnd(iv, branch_end) ==
    IF branch_end < End(iv) THEN SetEnd(iv, branch_end) ELSE iv

BroadcastEndInput(iv, input_end) == input_end

\* the value of the second round: d->PushEndDown(input_interval_.End(), dir)
BroadcastEnd(iv, input_end) == End(iv)

AnsweredEndInput(iv, input_end) == input_end

\* the value handed to PushEndUp: PushEndUp(input_interval_.End(), dir)
AnsweredEnd(iv, input_end) == End(iv)

ReturnedEndInput(iv, input_end) == input_end

\* the value returned: return input_interval_.End()
ReturnedEnd(iv, input_end) == End(iv)

RunAfterEnd(r, n, input_end, kinds) ==
    IF r.ok /\ r.phase = 1 /\ Len(r.starts) = n
    THEN [r EXCEPT !.phase = 2, !.e = input_end, !.kinds = kinds]
    ELSE RunOff

\* first loop: branches i..n are probed with the original input_end
ProbeBranches(st, s, i, input_end) ==
    IF i > NumBranches(s) THEN st
    ELSE LET r == PushEndDown(st, s, downstream[s][i],
                              ProbeEnd(st.iv[s], input_end))
             iv == ClampEnd(r.st.iv[s], r.ret)
         IN  ProbeBranches([r.st EXCEPT !.iv[s] = iv,
                                        !.ends[s] = Append(@, End(iv))],
                           s, i + 1, input_end)

\* second loop: branches i..n are told the reconciled end
BroadcastBranches(st, s, i, input_end) ==
    IF i > NumBranches(s) THEN st
    ELSE LET r == PushEndDown(st, s, downstream[s][i],
                              BroadcastEnd(st.iv[s], input_end))
         IN  BroadcastBranches(r.st, s, i + 1, input_end)

\* SplitStage::PushEndUp changes nothing; the call is recorded.
PushEndUp(st, s, output_end) ==
    [st EXCEPT !.log = Append(@, Call(s, s, "PushEndUp", output_end, 0, 0))]

PushEndDown(st, from, d, input_end) ==
    IF d \notin Splits
    THEN LET ret == LeafAccept(st.kinds[d], input_end)
         IN  [st |-> [st EXCEPT !.log =
                        Append(@, Call(from, d, "PushEndDown", input_end, 0, ret))],
              ret |-> ret]
    ELSE
      LET at == Len(st.log) + 1
          st0 == [st EXCEPT
                    !.log = Append(@, Call(from, d, "PushEndDown", input_end, 0, 0)),
                    !.iv[d] = SetEnd(@, input_end),
                    !.ends[d] = <<input_end>>,
                    !.round[d] = RoundAfterEnd(@),
                    !.run[d] = RunAfterEnd(@, NumBranches(d), input_end, st.kinds),
                    !.prevCrop[d] = TouchCrop(@, TRUE)]
          st1 == ProbeBranches(st0, d, 1, input_end)
          st2 == BroadcastBranches(st1, d, 1, input_end)
          st3 == PushEndUp(st2, d, AnsweredEnd(st2.iv[d], input_end))
          ret == ReturnedEnd(st3.iv[d], input_end)
      IN  [st |-> [st3 EXCEPT !.log[at].ret = ret], ret |-> ret]

----------------------------------------------------------------------------
\* SplitStage::PushCropDown

CropAcceptedAlways(interval, iv) == TRUE

CropAcceptedStartOnly(interval, iv) == interval.offset <= iv.offset

CropAcceptedEndOnly(interval, iv) == interval.end >= iv.end

\* assert(interval > input_interval_);
CropAccepted(interval, iv) == Extends(interval, iv)

CropPassedDownRecorded(interval, iv) == iv

\* the interval handed to every branch: d->PushCropDown(interval, dir)
CropPassedDown(interval, iv) == interval

CropDone(interval) ==
    IF tracking
    THEN [set |-> TRUE, offset |-> interval.offset, end |-> interval.end,
          touched |-> FALSE]
    ELSE NoCrop

RunAfterCrop(r, interval) ==
    IF r.ok /\ r.phase = 2
    THEN [r EXCEPT !.phase = 3, !.offset = interval.offset, !.end = interval.end]
    ELSE RunOff

CropBranches(st, s, i, interval) ==
    IF i > NumBranches(s) \/ st.aborted THEN st
    ELSE CropBranches(PushCropDown(st, s, downstream[s][i], interval),
                      s, i + 1, interval)

PushCropDown(st, from, d, interval) ==
    LET logged == [st EXCEPT !.log =
                     Append(@, Call(from, d, "PushCropDown",
                                    interval.offset, interval.end, 0))]
    IN  IF d \notin Splits THEN logged
        ELSE IF ~CropAccepted(interval, st.iv[d])
        THEN [logged EXCEPT !.aborted = TRUE]
        ELSE CropBranches(
                 [logged EXCEPT
                    !.iv[d] = interval,
                    !.round[d] = RoundAfterCrop(@),
                    !.run[d] = RunAfterCrop(@, interval),
                    !.prevCrop[d] = CropDone(interval)],
                 d, 1, CropPassedDown(interval, st.iv[d]))

----------------------------------------------------------------------------
\* The state machine.

Built ==
    /\ exists = {"S0"}
    /\ upstream = [x \in Stages |-> "src"]
    /\ downstream = [s \in Splits |-> <<>>]
    /\ input_interval = [s \in Splits |-> Interval(0, 0)]
    /\ count = [s \in Splits |-> 0]
    /\ wasReset = {}
    /\ aborted = FALSE
    /\ lastOp = Op("new", "S0", 0, 0, NoKinds)
    /\ callLog = <<>>
    /\ round = [s \in Splits |-> NoRound]
    /\ prevCrop = [s \in Splits |-> NoCrop]
    /\ run = [s \in Splits |-> RunOff]
    /\ endTrace = [s \in Splits |-> <<>>]

\* Nothing has been observed of tryRunPipeline or findMatchingBuffers yet.
NoTry ==
    [called |-> FALSE, state |-> "Stopped", requests |-> <<>>, bayer |-> <<>>,
     embedded |-> <<>>, signalled |-> FALSE]
NoFind ==
    [called |-> FALSE, ts |-> 0, bayer |-> <<>>, embedded |-> <<>>,
     ret |-> FALSE, match |-> 0, returned |-> <<>>, bayerAfter |-> <<>>,
     embeddedAfter |-> <<>>]
\* The IPA and the ISP owe the handler no callback.
NoPending == [prepare |-> <<>>, isp |-> {}, job |-> 0, stats |-> {}]

\* A Vc4CameraData that has not been started, with or without a sensor that
\* delivers embedded metadata: empty queues, state_ Stopped.
CameraData(meta) ==
    /\ state = "Stopped"
    /\ requestQueue = <<>>
    /\ bayerQueue = <<>>
    /\ embeddedQueue = <<>>
    /\ sensorMetadata = meta
    /\ pending = NoPending
    /\ clock = [bayer |-> 0, embedded |-> 0, seq |-> 0]
    /\ events = <<>>
    /\ vcOp = [op |-> "new", arg |-> 0, running |-> FALSE]
    /\ lastTry = NoTry
    /\ lastFind = NoFind

\* No configuration file: a null root.
NoFile ==
    [present |-> FALSE, version |-> "none", target |-> "none",
     min_unicam_buffers |-> -1, min_total_unicam_buffers |-> -1]

\* platformPipelineConfigure has not run: config_ is not read before it has.
Unconfigured ==
    /\ config = [minUnicamBuffers |-> 0, minTotalUnicamBuffers |-> 0]
    /\ configRet = [called |-> FALSE, file |-> NoFile, ret |-> "none"]
    /\ numBuffers = [called |-> FALSE, raw |-> 0, image |-> 0, input |-> 0,
                     embedded |-> 0, other |-> 0]

\* The camera the tiling specifications leave alone.
CameraOff == CameraData(FALSE) /\ Unconfigured

\* One fan-out node, with the histories recorded.
Init ==
    /\ Built
    /\ tracking = TRUE
    /\ tally = [s \in Splits |-> NoTally]
    /\ CameraOff

\* The same graph without the histories: the start of the specifications
\* that add a second fan-out node or the remaining operations.
InitNested ==
    /\ Built
    /\ tracking = FALSE
    /\ tally = [s \in Splits |-> NoTally]
    /\ CameraOff

\* The graph is built before the first negotiation and not changed afterwards.
Building == wasReset = {} /\ ~aborted
\* Every SplitStage is reset before its counter is first read.
Negotiating == (exists \cap Splits) \subseteq wasReset /\ ~aborted

\* The fan-out nodes fed by the source: the driver calls PushEndDown and
\* PushCropDown there, every other node receives them from its upstream_.
Roots == {s \in exists \cap Splits : upstream[s] = "src"}

Install(st, op, node, a, b) ==
    /\ input_interval' = st.iv
    /\ count' = st.count
    /\ aborted' = st.aborted
    /\ callLog' = st.log
    /\ round' = st.round
    /\ prevCrop' = st.prevCrop
    /\ run' = st.run
    /\ endTrace' = st.ends
    /\ tally' = [s \in Splits |-> TallyAfter(tally[s], st.log, s)]
    /\ lastOp' = Op(op, node, a, b, st.kinds)

\* SplitStage::SplitStage(name, upstream): the second fan-out node, below S0.
NewSplitStage ==
    /\ Building
    /\ "S1" \notin exists
    /\ exists' = exists \cup {"S1"}
    /\ upstream' = [upstream EXCEPT !["S1"] = "S0"]
    /\ downstream' = SetDownstream(downstream, "S0", "S1")
    /\ lastOp' = Op("new", "S1", 0, 0, NoKinds)
    /\ callLog' = <<>>
    /\ endTrace' = [s \in Splits |-> <<>>]
    /\ UNCHANGED <<pipevars, bufvars>>
    /\ UNCHANGED <<input_interval, count, wasReset, aborted, round,
                   prevCrop, run, tally, tracking>>

\* A branch stage is constructed below a fan-out node and registers itself.
NewBranchStage ==
    /\ Building
    /\ \E k \in 1..MaxLeaves, up \in exists \cap Splits :
         LET d == LeafNames[k] IN
         /\ d \notin exists
         /\ \A j \in 1..(k - 1) : LeafNames[j] \in exists
         /\ exists' = exists \cup {d}
         /\ upstream' = [upstream EXCEPT ![d] = up]
         /\ downstream' = SetDownstream(downstream, up, d)
         /\ lastOp' = Op("new", d, 0, 0, NoKinds)
    /\ callLog' = <<>>
    /\ endTrace' = [s \in Splits |-> <<>>]
    /\ UNCHANGED <<pipevars, bufvars>>
    /\ UNCHANGED <<input_interval, count, wasReset, aborted, round, prevCrop,
                   run, tally, tracking>>

Reset ==
    /\ ~aborted
    /\ \E s \in exists \cap Splits :
         /\ input_interval' = [input_interval EXCEPT
                                 ![s] = ResetState(@, count[s]).iv]
         /\ count' = [count EXCEPT ![s] = ResetState(input_interval[s], @).count]
         /\ wasReset' = wasReset \cup {s}
         /\ round' = [round EXCEPT ![s] = NoRound]
         /\ prevCrop' = [prevCrop EXCEPT ![s] = NoCrop]
         /\ run' = [run EXCEPT ![s] = IF tracking THEN RunFresh(count[s] # 0)
                                                   ELSE RunOff]
         /\ tally' = [tally EXCEPT ![s] = [@ EXCEPT !.recv = 0, !.fwd = 0]]
         /\ lastOp' = Op("Reset", s, 0, 0, NoKinds)
    /\ callLog' = <<>>
    /\ endTrace' = [s \in Splits |-> <<>>]
    /\ UNCHANGED <<pipevars, bufvars>>
    /\ UNCHANGED <<exists, upstream, downstream, aborted, tracking>>

DoPushStartUp ==
    /\ Negotiating
    /\ \E s \in exists \cap Splits, v \in Vals :
         /\ count[s] < MaxCount
         /\ \A u \in Splits : tally[u].on => tally[u].recv < MaxCalls
         /\ \E st \in {PushStartUp(Cur(NoKinds), "ext", s, v)} :
              Install(st, "PushStartUp", s, v, 0)
    /\ UNCHANGED <<pipevars, bufvars>>
    /\ UNCHANGED <<exists, upstream, downstream, wasReset, tracking>>

DoPushEndDown ==
    /\ Negotiating
    /\ \E s \in Roots, e \in Vals, kinds \in [Leaves -> LeafKinds] :
         /\ \A d \in Leaves \ exists : kinds[d] = PassThrough
         /\ \E st \in {PushEndDown(Cur(kinds), "ext", s, e).st} :
              Install(st, "PushEndDown", s, e, 0)
    /\ UNCHANGED <<pipevars, bufvars>>
    /\ UNCHANGED <<exists, upstream, downstream, wasReset, tracking>>

DoPushCropDown ==
    /\ Negotiating
    /\ \E s \in Roots, interval \in Intervals :
         \E st \in {PushCropDown(Cur(NoKinds), "ext", s, interval)} :
           Install(st, "PushCropDown", s, interval.offset, interval.end)
    /\ UNCHANGED <<pipevars, bufvars>>
    /\ UNCHANGED <<exists, upstream, downstream, wasReset, tracking>>

Next ==
    \/ NewBranchStage
    \/ Reset
    \/ DoPushStartUp
    \/ DoPushEndDown
    \/ DoPushCropDown

Spec == Init /\ [][Next]_vars

NextNested ==
    \/ NewSplitStage
    \/ NewBranchStage
    \/ Reset
    \/ DoPushStartUp
    \/ DoPushEndDown
    \/ DoPushCropDown

SpecNested == InitNested /\ [][NextNested]_vars

\* SplitStage::PushEndUp called from outside: nothing but the trace output.
DoPushEndUp ==
    /\ Negotiating
    /\ \E s \in exists \cap Splits, v \in Vals :
         \E st \in {PushEndUp(Cur(NoKinds), s, v)} :
           Install(st, "PushEndUp", s, v, 0)
    /\ UNCHANGED <<pipevars, bufvars>>
    /\ UNCHANGED <<exists, upstream, downstream, wasReset, tracking>>

\* SplitStage::CopyOut: an empty body.
CopyOut(st, s) == st

DoCopyOut ==
    /\ Negotiating
    /\ \E s \in exists \cap Splits :
         \E st \in {CopyOut(Cur(NoKinds), s)} :
           Install(st, "CopyOut", s, 0, 0)
    /\ UNCHANGED <<pipevars, bufvars>>
    /\ UNCHANGED <<exists, upstream, downstream, wasReset, tracking>>

\* Every operation of the class, on one fan-out node.
NextAll ==
    \/ NewBranchStage
    \/ Reset
    \/ DoPushStartUp
    \/ DoPushEndDown
    \/ DoPushEndUp
    \/ DoPushCropDown
    \/ DoCopyOut

SpecAll == InitNested /\ [][NextAll]_vars

\* Phase 1 on one or two fan-out nodes, with the histories recorded.
NextStarts ==
    \/ NewSplitStage
    \/ NewBranchStage
    \/ Reset
    \/ DoPushStartUp

SpecStarts == Init /\ [][NextStarts]_vars

\* Phase 1 on one or two fan-out nodes, with the calls tallied.
InitTally ==
    /\ Built
    /\ tracking = FALSE
    /\ tally = [s \in Splits |-> [NoTally EXCEPT !.on = TRUE]]
    /\ CameraOff

SpecTally == InitTally /\ [][NextStarts]_vars

----------------------------------------------------------------------------
\* Properties.  In every state lastOp is the call made from outside the graph
\* in the step that led to the state and callLog holds the calls of that step.

\* The node that received the call from outside, its branch count, and the
\* calls it made itself.
Top == lastOp.node
TopN == NumBranches(Top)
TopEnds == FromCalls(callLog, Top, "PushEndDown")
TopCrops == FromCalls(callLog, Top, "PushCropDown")
\* The value the outside call returned.
TopRet == callLog[1].ret
\* Branch i of the node, as registered.
Branch(i) == downstream[Top][i]

SeqMin(q) == SetMin(Range(q))

\* C1 (leftmost start): when the n-th PushStartUp of a round that began with
\* the counter at 0 arrives, the node makes exactly one PushStartUp call, to
\* its upstream neighbour, carrying the minimum of the n starts of the round.
LeftmostStart ==
    \A s \in exists \cap Splits :
        (lastOp.op = "PushStartUp" /\ round[s].done # <<>>) =>
            /\ Len(round[s].done) = NumBranches(s)
            /\ FromCalls(callLog, s, "PushStartUp") =
                   <<Call(s, upstream[s], "PushStartUp",
                          SeqMin(round[s].done), 0, 0)>>

\* C1 witness: two branches ask for starts 2 and then 1 (the leftmost start is
\* neither the first nor a repeated value) and upstream is asked for 1.
LeftmostStartWitness ==
    /\ lastOp.op = "PushStartUp"
    /\ round["S0"].done = <<2, 1>>
    /\ Len(callLog) = 2
    /\ callLog[2].to = "src"
    /\ callLog[2].a = 1

\* What C2 asks of one step.
CountingBarrierStep ==
    \A s \in exists \cap Splits :
        LET n == NumBranches(s)
            got == ToCalls(callLog', s, "PushStartUp")
            fwd == FromCalls(callLog', s, "PushStartUp")
        IN  IF got # <<>>
            THEN /\ Len(got) = 1
                 /\ ~aborted'
                 /\ IF count[s] + 1 = n
                    THEN /\ Len(fwd) = 1
                         /\ fwd[1].to = upstream[s]
                         /\ count'[s] = 0
                    ELSE /\ fwd = <<>>
                         /\ count'[s] = count[s] + 1
            ELSE /\ fwd = <<>>
                 /\ lastOp'.op # "Reset" => count'[s] = count[s]

\* C2 (counting barrier): a step forwards PushStartUp from a node only if the
\* node received PushStartUp in that step and its counter reached the branch
\* count; it then forwards exactly once and the counter is zero afterwards;
\* otherwise the counter is one higher, nothing is forwarded and nothing
\* aborts.
CountingBarrier == [][CountingBarrierStep]_vars

\* C2 witness: a node with three branches has received two PushStartUp calls
\* and has asked nothing of its upstream.
CountingBarrierWitness ==
    /\ lastOp.op = "PushStartUp"
    /\ Top = "S0"
    /\ TopN = 3
    /\ count["S0"] = 2
    /\ Len(callLog) = 1
    /\ ~aborted

\* The answer of branch i to the first PushEndDown call the node made to it.
ProbeAnswers(i) ==
    {TopEnds[k].ret : k \in {k \in 1..Len(TopEnds) :
        /\ TopEnds[k].to = Branch(i)
        /\ \A j \in 1..(k - 1) : TopEnds[j].to # Branch(i)}}

\* The values of the last PushEndDown call the node made to branch i.
LastEnds(i) ==
    {TopEnds[k] : k \in {k \in 1..Len(TopEnds) :
        /\ TopEnds[k].to = Branch(i)
        /\ \A j \in (k + 1)..Len(TopEnds) : TopEnds[j].to # Branch(i)}}

\* C3 (most restrictive end): PushEndDown(e) on a node with branches returns
\* the minimum of the branches' answers to the probe, and this is the value
\* every branch is told last.
MostRestrictiveEnd ==
    (lastOp.op = "PushEndDown" /\ TopN >= 1) =>
        /\ \A i \in 1..TopN : Cardinality(ProbeAnswers(i)) = 1
        /\ TopRet = SetMin(UNION {ProbeAnswers(i) : i \in 1..TopN})
        /\ \A i \in 1..TopN : \A c \in LastEnds(i) : c.a = TopRet

\* C3 witness: probed with 2, the first branch answers 1, the second 2; the
\* node returns 1.
MostRestrictiveEndWitness ==
    /\ lastOp.op = "PushEndDown"
    /\ lastOp.a = 2
    /\ TopN = 2
    /\ ProbeAnswers(1) = {1}
    /\ ProbeAnswers(2) = {2}
    /\ TopRet = 1

\* C4 (probe, then broadcast): PushEndDown(e) on a node with n branches makes
\* 2n PushEndDown calls: to branches 1..n in registration order with e, then
\* to branches 1..n in registration order with the returned end.
ProbeThenBroadcast ==
    lastOp.op = "PushEndDown" =>
        /\ Len(TopEnds) = 2 * TopN
        /\ \A i \in 1..TopN :
             /\ TopEnds[i].to = Branch(i)
             /\ TopEnds[i].a = lastOp.a
             /\ TopEnds[TopN + i].to = Branch(i)
             /\ TopEnds[TopN + i].a = TopRet

\* C4 witness: the first of three branches answers less than it was offered,
\* and the later branches are still probed with the original end.
ProbeThenBroadcastWitness ==
    /\ lastOp.op = "PushEndDown"
    /\ TopN = 3
    /\ lastOp.a = 2
    /\ TopEnds[1].ret = 0
    /\ TopEnds[2].a = 2
    /\ TopEnds[3].a = 2
    /\ TopEnds[4].a = 0

\* The end branch i has recorded: a fan-out node keeps it in its interval, a
\* branch stage records what it answered last.
RecordedEnds(i) ==
    IF Branch(i) \in Splits
    THEN {End(input_interval[Branch(i)])}
    ELSE {c.ret : c \in LastEnds(i)}

AllRecordFinalEnd ==
    \A i \in 1..TopN : RecordedEnds(i) = {TopRet}

\* C5 as stated (re-broadcast consistency for every monotonic, deterministic
\* branch transform): after PushEndDown returns, every branch has recorded
\* the returned end.
RebroadcastAnyTransform ==
    lastOp.op = "PushEndDown" => AllRecordFinalEnd

\* C5 amended: after PushEndDown returns, every branch has recorded the
\* returned end, provided every branch stage only clamps (it accepts
\* min(e, cap), without aligning); branches that are fan-out nodes included.
RebroadcastClamping ==
    (/\ lastOp.op = "PushEndDown"
     /\ \A d \in Leaves : lastOp.kinds[d].align = 1) => AllRecordFinalEnd

\* C5 witness: the nested fan-out node answered the probe with 2, a clamping
\* sibling with 1; the nested node has recorded 1.
RebroadcastClampingWitness ==
    /\ lastOp.op = "PushEndDown"
    /\ \A d \in Leaves : lastOp.kinds[d].align = 1
    /\ TopN >= 2
    /\ \E i \in 1..TopN :
         /\ Branch(i) = "S1"
         /\ NumBranches("S1") >= 1
         /\ ProbeAnswers(i) = {2}
    /\ TopRet = 1
    /\ End(input_interval["S1"]) = 1

\* The interval of the PushCropDown call that stage s receives in a step.
CropArg(c) == Interval(c.a, c.b)

\* What C6 asks of one step.
ExtendsPreconditionStep ==
    \A s \in exists \cap Splits :
        LET got == ToCalls(callLog', s, "PushCropDown")
        IN  (got # <<>> /\ ~Extends(CropArg(got[1]), input_interval[s])) =>
                /\ aborted'
                /\ input_interval'[s] = input_interval[s]
                /\ FromCalls(callLog', s, "PushCropDown") = <<>>

\* C6 (extends precondition): a PushCropDown whose interval does not extend
\* the node's recorded interval aborts; the recorded interval stays and the
\* node calls PushCropDown on no branch.
ExtendsPrecondition == [][ExtendsPreconditionStep]_vars

\* C6 witness: the node has recorded [0, 2) and PushCropDown([1, 1)) aborted.
ExtendsPreconditionWitness ==
    /\ aborted
    /\ lastOp.op = "PushCropDown"
    /\ lastOp.a = 1
    /\ lastOp.b = 1
    /\ input_interval["S0"] = Interval(0, 2)
    /\ TopN >= 1
    /\ Len(callLog) = 1

\* The PushCropDown calls that pass interval to branches 1..k of s.
CropCalls(s, k, interval) ==
    [i \in 1..k |-> Call(s, downstream[s][i], "PushCropDown",
                         interval.offset, interval.end, 0)]

\* What C7 asks of one step (as stated).
CropFanOutEveryBranchStep ==
    \A s \in exists \cap Splits :
        LET got == ToCalls(callLog', s, "PushCropDown")
        IN  (got # <<>> /\ Extends(CropArg(got[1]), input_interval[s])) =>
                /\ input_interval'[s] = CropArg(got[1])
                /\ FromCalls(callLog', s, "PushCropDown") =
                       CropCalls(s, NumBranches(s), CropArg(got[1]))
                /\ FromCalls(callLog', s, "PushStartUp") = <<>>
                /\ count'[s] = count[s]

CropFanOutStep ==
    \A s \in exists \cap Splits :
        LET got == ToCalls(callLog', s, "PushCropDown")
            made == FromCalls(callLog', s, "PushCropDown")
            k == Len(made)
        IN  (got # <<>> /\ Extends(CropArg(got[1]), input_interval[s])) =>
                /\ input_interval'[s] = CropArg(got[1])
                /\ k <= NumBranches(s)
                /\ made = CropCalls(s, k, CropArg(got[1]))
                /\ ~aborted' => k = NumBranches(s)
                /\ k < NumBranches(s) =>
                       /\ aborted'
                       /\ k >= 1
                       /\ made[k].to \in Splits
                       /\ ~Extends(CropArg(got[1]), input_interval[made[k].to])
                /\ FromCalls(callLog', s, "PushStartUp") = <<>>
                /\ count'[s] = count[s]

PrevCropInterval(s) == Interval(prevCrop[s].offset, prevCrop[s].end)

\* What C8 asks of one step (as stated).
MonotonicCropAnySequenceStep ==
    \A s \in exists \cap Splits :
        LET got == ToCalls(callLog', s, "PushCropDown")
        IN  (got # <<>> /\ prevCrop[s].set) =>
                (Extends(CropArg(got[1]), PrevCropInterval(s)) \/ aborted')

\* C8 as stated (monotonic crop over any operation sequence): when
\* PushCropDown has returned on a node and no Reset followed, a later
\* PushCropDown returns only if its interval extends the earlier one,
\* whatever was called in between.
MonotonicCropAnySequence == [][MonotonicCropAnySequenceStep]_vars

\* What C8 asks of one step (amended).
MonotonicCropStep ==
    \A s \in exists \cap Splits :
        LET got == ToCalls(callLog', s, "PushCropDown")
        IN  (got # <<>> /\ prevCrop[s].set /\ ~prevCrop[s].touched) =>
                \/ Extends(CropArg(got[1]), PrevCropInterval(s))
                \/ aborted' /\ input_interval'[s] = input_interval[s]

\* C8 amended: when PushCropDown has returned on a node and neither Reset
\* nor PushEndDown nor a PushStartUp arriving with the counter at 0 followed,
\* a later PushCropDown returns only if its interval extends the earlier one;
\* otherwise it aborts and the recorded interval stays.
MonotonicCrop == [][MonotonicCropStep]_vars

\* C8 witness: PushCropDown([0, 2)) returned, a PushStartUp that widened the
\* interval followed, and PushCropDown([1, 2)) aborted.
MonotonicCropWitness ==
    /\ aborted
    /\ lastOp.op = "PushCropDown"
    /\ lastOp.a = 1
    /\ lastOp.b = 2
    /\ prevCrop["S0"].set
    /\ ~prevCrop["S0"].touched
    /\ PrevCropInterval("S0") = Interval(0, 2)
    /\ count["S0"] = 1

\* The results of Reset, n PushStartUp, PushEndDown(e) and PushCropDown,
\* written in terms of their inputs alone.
RunStart(r) == IF r.starts = <<>> THEN 0 ELSE SeqMin(r.starts)
RunAnswer(s, r, i, end) == LeafAccept(r.kinds[downstream[s][i]], end)
RunEnd(s, r) ==
    SetMin({r.e} \cup {RunAnswer(s, r, i, r.e) : i \in 1..NumBranches(s)})
RunInterval(s, r) == Interval(RunStart(r), RunEnd(s, r))
RunStartLog(s, r) ==
    LET k == Len(r.starts)
    IN  <<Call("ext", s, "PushStartUp", r.starts[k], 0, 0)>> \o
        (IF k = NumBranches(s)
         THEN <<Call(s, upstream[s], "PushStartUp", RunStart(r), 0, 0)>>
         ELSE <<>>)
RunEndLog(s, r) ==
    <<Call("ext", s, "PushEndDown", r.e, 0, RunEnd(s, r))>> \o
    [i \in 1..NumBranches(s) |->
        Call(s, downstream[s][i], "PushEndDown", r.e, 0,
             RunAnswer(s, r, i, r.e))] \o
    [i \in 1..NumBranches(s) |->
        Call(s, downstream[s][i], "PushEndDown", RunEnd(s, r), 0,
             RunAnswer(s, r, i, RunEnd(s, r)))] \o
    <<Call(s, s, "PushEndUp", RunEnd(s, r), 0, 0)>>
RunCropLog(s, r) ==
    <<Call("ext", s, "PushCropDown", r.offset, r.end, 0)>> \o
    CropCalls(s, NumBranches(s), Interval(r.offset, r.end))

\* C9 (reset, determinism): Reset leaves the interval (0, 0) and the counter
\* 0, and whatever the node's state was before Reset, the interval, the
\* counter and the calls made after each of the following n PushStartUp,
\* PushEndDown and PushCropDown are those determined by the inputs of these
\* calls and the branches' answers.
ResetDeterminism ==
    \A s \in exists \cap Splits :
        LET r == run[s]
            n == NumBranches(s)
            k == Len(r.starts)
        IN  r.ok =>
              /\ (r.phase = 1 /\ k = 0 /\ ~aborted) =>
                    /\ input_interval[s] = Interval(0, 0)
                    /\ count[s] = 0
                    /\ callLog = <<>>
              /\ (r.phase = 1 /\ k > 0 /\ ~aborted) =>
                    /\ input_interval[s].offset = RunStart(r)
                    /\ count[s] = IF k = n THEN 0 ELSE k
                    /\ callLog = RunStartLog(s, r)
              /\ (r.phase = 2 /\ ~aborted) =>
                    /\ input_interval[s] = RunInterval(s, r)
                    /\ count[s] = 0
                    /\ callLog = RunEndLog(s, r)
              /\ (r.phase = 2 /\ aborted) =>
                    /\ input_interval[s] = RunInterval(s, r)
                    /\ lastOp.op = "PushCropDown"
                    /\ ~Extends(Interval(lastOp.a, lastOp.b), RunInterval(s, r))
              /\ (r.phase = 3 /\ ~aborted) =>
                    /\ Extends(Interval(r.offset, r.end), RunInterval(s, r))
                    /\ input_interval[s] = Interval(r.offset, r.end)
                    /\ count[s] = 0
                    /\ callLog = RunCropLog(s, r)

\* C9 witness: Reset interrupted an unfinished round of a node with two
\* branches, and the three phases that followed ran to the end.
ResetDeterminismWitness ==
    /\ run["S0"].ok
    /\ run["S0"].dirty
    /\ run["S0"].phase = 3
    /\ run["S0"].starts = <<2, 1>>
    /\ NumBranches("S0") = 2
    /\ input_interval["S0"] = Interval(0, 2)
    /\ ~aborted

\* PushStartUp applied to the starts q[i..], in this order, from counter i-1.
RECURSIVE ReplayFrom(_, _, _)
ReplayFrom(q, i, iv) ==
    IF i > Len(q) THEN iv
    ELSE ReplayFrom(q, i + 1, CollectStart(i - 1, iv, q[i]))
ReplayStarts(q) == ReplayFrom(q, 1, Interval(0, 0))

\* C10 (order independence): when a round that began with the counter at 0
\* completes, the start the node has recorded and the start it sends
\* upstream are those that every other order of the same PushStartUp calls
\* produces.
OrderIndependence ==
    \A s \in exists \cap Splits :
        (lastOp.op = "PushStartUp" /\ round[s].done # <<>>) =>
            LET q == round[s].done
                fwd == FromCalls(callLog, s, "PushStartUp")
            IN  \A p \in Permutations(1..Len(q)) :
                    LET iv == ReplayStarts([i \in 1..Len(q) |-> q[p[i]]])
                    IN  /\ iv.offset = input_interval[s].offset
                        /\ Len(fwd) = 1
                        /\ fwd[1].a = ForwardedStart(iv)

\* C10 witness: the starts arrived as 0 and then 2; the recorded and the
\* forwarded start are 0, as for 2 and then 0.
OrderIndependenceWitness ==
    /\ lastOp.op = "PushStartUp"
    /\ round["S0"].done = <<0, 2>>
    /\ input_interval["S0"].offset = 0
    /\ callLog[2].a = 0

NonIncreasing(q) == \A i \in 1..(Len(q) - 1) : q[i + 1] <= q[i]

\* C11 (no over-promise): the end PushEndDown(inputEnd) returns, and every end
\* it passes to a branch in the second round, is at most inputEnd and at most
\* every branch's answer to the probe; the ends the node records during the
\* call start at inputEnd and never increase.  Every fan-out node reached by
\* the call returns at most what it was offered.
NoOverPromise ==
    lastOp.op = "PushEndDown" =>
        /\ TopRet <= lastOp.a
        /\ \A i \in 1..TopN : \A a \in ProbeAnswers(i) : TopRet <= a
        /\ \A k \in (TopN + 1)..Len(TopEnds) :
             /\ TopEnds[k].a <= lastOp.a
             /\ \A i \in 1..TopN : \A a \in ProbeAnswers(i) : TopEnds[k].a <= a
        /\ Len(endTrace[Top]) = TopN + 1
        /\ endTrace[Top][1] = lastOp.a
        /\ endTrace[Top][TopN + 1] = TopRet
        /\ \A s \in exists \cap Splits :
             /\ NonIncreasing(endTrace[s])
             /\ \A k \in 1..Len(callLog) :
                  (callLog[k].to = s /\ callLog[k].op = "PushEndDown") =>
                      callLog[k].ret <= callLog[k].a

\* C11 witness: offered 2, the first branch answers 2 and the second 1; the
\* recorded end goes 2, 2, 1 and both branches are told 1.
NoOverPromiseWitness ==
    /\ lastOp.op = "PushEndDown"
    /\ TopN = 2
    /\ endTrace[Top] = <<2, 2, 1>>
    /\ TopEnds[3].a = 1
    /\ TopEnds[4].a = 1
    /\ TopRet = 1

\* C12 as stated (interval well-formedness): once Phase 1 has fixed the start
\* of a node's interval and PushEndDown has set its end, start <= end holds.
IntervalWellFormed ==
    \A s \in exists \cap Splits :
        (run[s].ok /\ run[s].phase >= 2 /\ run[s].starts # <<>>) =>
            input_interval[s].offset <= input_interval[s].end

\* C13 as stated (counter zero at phase boundaries): the counter of a node
\* with branches is zero when a PushEndDown or a PushCropDown on it has
\* returned, so that no PushStartUp counted before that phase counts after it.
CounterZeroAtPhaseStart ==
    (lastOp.op \in {"PushEndDown", "PushCropDown"} /\ ~aborted /\ TopN >= 1) =>
        count[Top] = 0

\* What C13 asks of one step (amended).
CounterResetStep ==
    \A s \in exists \cap Splits :
        LET got == ToCalls(callLog', s, "PushStartUp")
            n == NumBranches(s)
        IN  /\ (lastOp'.op = "Reset" /\ lastOp'.node = s) => count'[s] = 0
            /\ lastOp'.op \in {"PushEndDown", "PushCropDown"} =>
                   count'[s] = count[s]
            /\ (lastOp'.op = "PushStartUp" /\ got # <<>>) =>
                   count'[s] = IF count[s] + 1 = n THEN 0 ELSE count[s] + 1
            /\ (count'[s] = 0 /\ count[s] # 0) =>
                   \/ lastOp'.op = "Reset" /\ lastOp'.node = s
                   \/ lastOp'.op = "PushStartUp" /\ got # <<>>
                        /\ count[s] + 1 = n

\* C13 amended: the counter is set to zero by Reset and by the PushStartUp
\* that makes it reach the branch count, and by nothing else; PushEndDown and
\* PushCropDown leave it as it is, so a PushStartUp counted before them still
\* counts toward the barrier afterwards.
CounterReset == [][CounterResetStep]_vars

\* C13 witness: after Reset, a node with two branches received one
\* PushStartUp, then a PushCropDown that returned, then a second PushStartUp,
\* which completed the barrier and was forwarded.
CounterResetWitness ==
    /\ lastOp.op = "PushStartUp"
    /\ TopN = 2
    /\ Len(callLog) = 2
    /\ callLog[2].to = "src"
    /\ count[Top] = 0
    /\ prevCrop[Top].set
    /\ ~prevCrop[Top].touched

\* What C14 asks of one step.
MiscountedStartStep ==
    \A s \in exists \cap Splits :
        LET got == ToCalls(callLog', s, "PushStartUp")
            fwd == FromCalls(callLog', s, "PushStartUp")
            n == NumBranches(s)
        IN  (/\ lastOp.op = "PushStartUp"
             /\ round[s].done # <<>>
             /\ lastOp'.op = "PushStartUp"
             /\ got # <<>>) =>
                /\ Len(round[s].done) = n
                /\ ~aborted'
                /\ input_interval'[s] = IntervalPoint(got[1].a)
                /\ IF n = 1
                   THEN count'[s] = 0 /\ Len(fwd) = 1
                   ELSE count'[s] = 1 /\ fwd = <<>>

\* C14 (miscounted PushStartUp is silent): the PushStartUp that follows the
\* n-th of a round raises no error; it makes the interval the single point at
\* its own argument and counts as the first call of a new round, so upstream
\* is asked again only when n calls of the new round have arrived.
MiscountedStart == [][MiscountedStartStep]_vars

\* C14 witness: after Reset two branches asked for 0 and 1 and upstream was
\* asked for 0; a third PushStartUp(2) left the interval at the point 2, the
\* counter at 1, and asked nothing of upstream.
MiscountedStartWitness ==
    /\ lastOp.op = "PushStartUp"
    /\ run["S0"].phase = 4
    /\ run["S0"].starts = <<0, 1>>
    /\ NumBranches("S0") = 2
    /\ input_interval["S0"] = Interval(2, 2)
    /\ count["S0"] = 1
    /\ Len(callLog) = 1
    /\ ~aborted

\* What C15 asks of one step.
OutOfOrderStep ==
    /\ (aborted' /\ ~aborted) => lastOp'.op = "PushCropDown"
    /\ lastOp'.op = "PushEndDown" =>
         LET s == lastOp'.node
             n == NumBranches(s)
             ends == FromCalls(callLog', s, "PushEndDown")
         IN  /\ ~aborted'
             /\ Len(ends) = 2 * n
             /\ \A i \in 1..n : /\ ends[i].to = downstream[s][i]
                                /\ ends[n + i].to = downstream[s][i]
             /\ callLog'[Len(callLog')] =
                    Call(s, s, "PushEndUp", End(input_interval'[s]), 0, 0)
             /\ callLog'[1].ret = End(input_interval'[s])

\* C15 (out-of-order phases are not detected): PushEndDown probes every
\* branch, tells every branch the result, answers and returns its recorded
\* end from every state, whatever was or was not called before; only a
\* PushCropDown step can abort.
OutOfOrder == [][OutOfOrderStep]_vars

\* C15 witness: PushEndDown has returned on a node with two branches while
\* its barrier was open (one PushStartUp counted, one outstanding).
OutOfOrderWitness ==
    /\ lastOp.op = "PushEndDown"
    /\ TopN = 2
    /\ count[Top] = 1
    /\ Len(TopEnds) = 4
    /\ TopRet = End(input_interval[Top])
    /\ ~aborted

\* The probe answers that leave the node no pixels: ends at or before the
\* node's start.
DegenerateAnswers ==
    {a \in UNION {ProbeAnswers(i) : i \in 1..TopN} :
        a <= input_interval[Top].offset}

\* C16 (degenerate answers propagate as data): when a branch answers the
\* probe with an end at or before the node's start, PushEndDown raises no
\* error; the end it records, tells every branch and returns is such a
\* degenerate answer (the least one).
DegenerateEnd ==
    (lastOp.op = "PushEndDown" /\ DegenerateAnswers # {}) =>
        /\ ~aborted
        /\ TopRet \in DegenerateAnswers
        /\ \A a \in DegenerateAnswers : TopRet <= a
        /\ End(input_interval[Top]) = TopRet
        /\ Len(TopEnds) = 2 * TopN
        /\ \A i \in 1..TopN : /\ TopEnds[TopN + i].to = Branch(i)
                              /\ TopEnds[TopN + i].a = TopRet

\* C16 witness: the node's start is 2; offered 2, the first branch answers 1
\* and the second, which could take 2, is told 1 as well; 1 is returned.
DegenerateEndWitness ==
    /\ lastOp.op = "PushEndDown"
    /\ lastOp.a = 2
    /\ TopN = 2
    /\ input_interval[Top] = Interval(2, 1)
    /\ ProbeAnswers(1) = {1}
    /\ ProbeAnswers(2) = {2}
    /\ TopEnds[4].a = 1
    /\ TopRet = 1
    /\ ~aborted

\* The parts of a round that came from fan-out node s.
PartsFrom(parts, s) == SelectSeq(parts, LAMBDA p : p.from = s)

\* C17 (nested fan-out asks once): with S1 a branch of S0, a step in which S1
\* calls S0's PushStartUp is one that brings S1's n-th PushStartUp of a
\* round, and it calls once; the source receives at most one PushStartUp in a
\* step, and when S0's round (one call from S1, one from each branch stage of
\* S0) completes it receives exactly one, carrying the minimum of the starts
\* of all branch stages below S0 and S1.
NestedAsksOnce ==
    "S1" \in exists =>
        LET inner == FromCalls(callLog, "S1", "PushStartUp")
            outer == ToCalls(callLog, "src", "PushStartUp")
            done == round["S0"].doneParts
        IN  /\ Len(inner) <= 1
            /\ Len(outer) <= 1
            /\ inner # <<>> =>
                 /\ inner[1].to = "S0"
                 /\ Len(round["S1"].done) = NumBranches("S1")
                 /\ inner[1].a = SeqMin(round["S1"].done)
                 /\ callLog[1].to = "S1"
            /\ outer # <<>> =>
                 /\ outer[1].from = "S0"
                 /\ Len(round["S0"].done) = NumBranches("S0")
            /\ (outer # <<>> /\ Len(PartsFrom(done, "S1")) = 1) =>
                 /\ Len(LeafStarts(done)) =
                        NumBranches("S1") + NumBranches("S0") - 1
                 /\ outer[1].a = SeqMin(LeafStarts(done))

\* C17 witness: S0 has a branch stage and S1, S1 has a branch stage; the
\* branch stage of S0 asked for 2, then that of S1 for 1: S1 asked S0 once
\* and S0 asked the source once, for 1.
NestedAsksOnceWitness ==
    /\ "S1" \in exists
    /\ NumBranches("S0") = 2
    /\ NumBranches("S1") = 1
    /\ lastOp.op = "PushStartUp"
    /\ lastOp.node = "S1"
    /\ Len(callLog) = 3
    /\ callLog[3].to = "src"
    /\ callLog[3].a = 1
    /\ LeafStarts(round["S0"].doneParts) = <<2, 1>>

\* What C18 asks of one step.
EndUpNoOpStep ==
    /\ lastOp'.op = "PushEndDown" =>
         LET s == lastOp'.node
             k == Len(callLog')
             ups == SelectSeq(callLog', LAMBDA c : c.op = "PushEndUp")
         IN  /\ ups = <<Call(s, s, "PushEndUp", callLog'[1].ret, 0, 0)>>
             /\ callLog'[k] = ups[1]
             /\ k = 2 * NumBranches(s) + 2
             /\ \A j \in 2..(k - 1) :
                  callLog'[j].from = s /\ callLog'[j].op = "PushEndDown"
    /\ lastOp'.op = "PushEndUp" =>
         /\ callLog' = <<Call(lastOp'.node, lastOp'.node, "PushEndUp",
                              lastOp'.a, 0, 0)>>
         /\ UNCHANGED <<input_interval, count, upstream, downstream, aborted>>
    /\ lastOp'.op = "CopyOut" =>
         /\ callLog' = <<>>
         /\ UNCHANGED <<input_interval, count, upstream, downstream, aborted>>

\* C18 (PushEndUp is a no-op, answered once): a PushEndDown on a node calls
\* the node's own PushEndUp exactly once, as its last call, after the calls of
\* both rounds, with the value PushEndDown returns; a PushEndUp or a CopyOut
\* on a node leaves interval, counter and topology as they are and calls
\* neither upstream nor a branch.
EndUpNoOp == [][EndUpNoOpStep]_vars

\* C18 witness: PushEndDown(2) on a node with two branches returned 1 after
\* four calls to the branches and then one PushEndUp(1).
EndUpNoOpWitness ==
    /\ lastOp.op = "PushEndDown"
    /\ lastOp.a = 2
    /\ TopN = 2
    /\ Len(callLog) = 6
    /\ callLog[6].op = "PushEndUp"
    /\ callLog[6].a = 1
    /\ TopRet = 1

NegotiationOps ==
    {"Reset", "PushStartUp", "PushEndDown", "PushEndUp", "PushCropDown",
     "CopyOut"}

\* What C19 asks of one step.
TopologyReadOnlyStep ==
    /\ lastOp'.op \in NegotiationOps =>
         UNCHANGED <<exists, upstream, downstream>>
    /\ lastOp'.op = "new" =>
         \E d \in Stages \ exists :
             /\ exists' = exists \cup {d}
             /\ \E up \in exists \cap Splits :
                  /\ upstream' = [upstream EXCEPT ![d] = up]
                  /\ downstream' =
                         [downstream EXCEPT ![up] = Append(@, d)]

\* C19 (topology is read-only during negotiation): constructing a stage below
\* a fan-out node appends it to the end of that node's branch list and
\* changes no other list; Reset, PushStartUp, PushEndDown, PushEndUp,
\* PushCropDown and CopyOut change no upstream reference and no branch list.
TopologyReadOnly == [][TopologyReadOnlyStep]_vars

\* C19 witness: the branches registered as L1, then L2; after a PushCropDown
\* that returned with the counter at 1 the list is still L1, L2.
TopologyReadOnlyWitness ==
    /\ downstream["S0"] = <<"L1", "L2">>
    /\ upstream["L1"] = "S0"
    /\ upstream["L2"] = "S0"
    /\ lastOp.op = "PushCropDown"
    /\ count["S0"] = 1
    /\ ~aborted

\* What C20 asks of one step.
CropWindowStep ==
    \A s \in exists \cap Splits :
        LET r == run[s]
            got == ToCalls(callLog', s, "PushCropDown")
            I == CropArg(got[1])
        IN  (r.ok /\ r.phase = 2 /\ r.starts # <<>> /\ ~aborted) =>
                /\ lastOp.op = "PushEndDown"
                /\ lastOp.node = s
                /\ Len(r.starts) = NumBranches(s)
                /\ input_interval[s] = Interval(SeqMin(r.starts), TopRet)
                /\ count[s] = 0
                /\ got # <<>> =>
                     /\ ~aborted' <=>
                            (I.offset <= SeqMin(r.starts) /\ I.end >= TopRet)
                     /\ ~aborted' => input_interval'[s] = I
                     /\ aborted' => input_interval'[s] = input_interval[s]

\* C20 (crop window admitted after Phases 1 and 2): after Reset, a complete
\* Phase 1 with starts s1..sn and a PushEndDown that returned e, the node has
\* recorded [min(s1..sn), e) and its counter is 0; the PushCropDown(I) that
\* follows returns if and only if I.start <= min(s1..sn) and I.end >= e, and
\* aborts otherwise.
CropWindow == [][CropWindowStep]_vars

\* C20 witness: after starts 2 and 1 and a PushEndDown that returned 1, the
\* window was [1, 1); PushCropDown([0, 2)) has returned.
CropWindowWitness ==
    /\ run["S0"].ok
    /\ run["S0"].phase = 3
    /\ run["S0"].starts = <<2, 1>>
    /\ RunEnd("S0", run["S0"]) = 1
    /\ lastOp.op = "PushCropDown"
    /\ input_interval["S0"] = Interval(0, 2)
    /\ ~aborted

\* C21 (barrier counter bound): for a node with n >= 1 branches on which
\* Reset has run, between calls the counter lies in 0..n-1 and equals k mod
\* n, and the node has forwarded floor(k / n) PushStartUp calls upstream,
\* where k is the number of PushStartUp calls it received since the Reset.
CounterBound ==
    \A s \in (exists \cap Splits) \cap wasReset :
        LET n == NumBranches(s)
            k == tally[s].recv
        IN  (n >= 1 /\ tally[s].on) =>
                /\ 0 <= count[s]
                /\ count[s] <= n - 1
                /\ count[s] = k % n
                /\ tally[s].fwd = k \div n

\* C21 witness: a node with two branches has received five PushStartUp calls
\* since Reset, has forwarded two and stands at 1.
CounterBoundWitness ==
    /\ "S0" \in wasReset
    /\ NumBranches("S0") = 2
    /\ tally["S0"].recv = 5
    /\ tally["S0"].fwd = 2
    /\ count["S0"] = 1

\* C22 (zero-branch SplitStage): a node with no registered branches makes no
\* PushEndDown, PushCropDown or PushStartUp call to another stage; every
\* PushEndDown(e) it receives returns e, and every PushStartUp it receives
\* leaves its counter above 0.
ZeroBranch ==
    \A s \in exists \cap Splits :
        NumBranches(s) = 0 =>
            /\ \A k \in 1..Len(callLog) :
                 callLog[k].from = s =>
                     /\ callLog[k].op = "PushEndUp"
                     /\ callLog[k].to = s
            /\ \A k \in 1..Len(callLog) :
                 (callLog[k].to = s /\ callLog[k].op = "PushEndDown") =>
                     /\ callLog[k].ret = callLog[k].a
                     /\ ~aborted
            /\ ToCalls(callLog, s, "PushStartUp") # <<>> => count[s] >= 1

\* C22 witness: a node with no branches has received three PushStartUp calls
\* and forwarded none; the last call made is the third.
ZeroBranchWitness ==
    /\ lastOp.op = "PushStartUp"
    /\ TopN = 0
    /\ count[Top] = 3
    /\ Len(callLog) = 1

\* ---------------------------------------------------------------------------
\* Vc4CameraData (vc4.cpp): frames on their way through Unicam, the IPA and
\* the ISP. A frame buffer is identified by its timestamp, a request by its
\* sequence number. The base class (CameraData) is not among the sources:
\* isRunning, handleStreamBuffer, handleState and the start, stop and request
\* entry points are modelled as the handlers here use them.
\* ---------------------------------------------------------------------------

Timestamps == 1..MaxTs
UnicamStreams == {"Image", "Embedded"}
IspStreams == {"Input", "Output0", "Output1", "Stats"}
IspOutputs == {"Output0", "Output1", "Stats"}
States == {"Stopped", "Idle", "Busy", "IpaComplete", "Error"}

\* Something a handler signalled to the IPA, queued to or returned to a
\* device, or handed back through handleStreamBuffer.
Event(ev, stream, buf) == [ev |-> ev, stream |-> stream, buf |-> buf, aux |-> 0]
PrepareEvent(bayer, embedded) ==
    [ev |-> "signalPrepareIsp", stream |-> "Image", buf |-> bayer,
     aux |-> embedded]

\* The camera as a handler finds it, with nothing signalled yet.
CurCamera ==
    [state |-> state, requestQueue |-> requestQueue, bayerQueue |-> bayerQueue,
     embeddedQueue |-> embeddedQueue, sensorMetadata |-> sensorMetadata,
     pending |-> pending, events |-> <<>>, lastTry |-> NoTry,
     lastFind |-> NoFind]

\* CameraData::isRunning.
isRunning(v) == v.state \notin {"Stopped", "Error"}

\* CameraData::handleStreamBuffer: the buffer goes back to its stream or to
\* the application.
handleStreamBuffer(v, stream, buf) ==
    [v EXCEPT !.events = Append(@, Event("handleStreamBuffer", stream, buf))]

OlderOrSame(b, ts) == b <= ts
\* findMatchingBuffers, line 964: the embedded buffer is older than the frame.
Older(b, ts) == b < ts

\* findMatchingBuffers, line 970: the embedded buffer belongs to the frame.
Matches(b, ts) == b = ts

\* findMatchingBuffers, lines 962-977: the loop over the embedded queue.
RECURSIVE MatchLoop(_, _, _)
MatchLoop(q, ts, returned) ==
    IF q = <<>>
    THEN [q |-> q, returned |-> returned, match |-> 0]
    ELSE IF Older(Head(q), ts)
         THEN MatchLoop(Tail(q), ts, Append(returned, Head(q)))
         ELSE IF Matches(Head(q), ts)
              THEN [q |-> Tail(q), returned |-> returned, match |-> Head(q)]
              ELSE [q |-> q, returned |-> returned, match |-> 0]

MustWaitNever(embeddedBuffer, meta, q) == FALSE
\* findMatchingBuffers, lines 979-980: no match, and none can be ruled out.
MustWait(embeddedBuffer, meta, q) == embeddedBuffer = 0 /\ meta /\ q = <<>>

RECURSIVE ReturnBuffers(_, _)
ReturnBuffers(evs, returned) ==
    IF returned = <<>>
    THEN evs
    ELSE ReturnBuffers(Append(evs, Event("returnBuffer", "Embedded",
                                         Head(returned))),
                       Tail(returned))

\* Vc4CameraData::findMatchingBuffers.
findMatchingBuffers(v) ==
    IF v.bayerQueue = <<>>
    THEN [v |-> [v EXCEPT !.lastFind =
                     [NoFind EXCEPT !.called = TRUE,
                                    !.embedded = v.embeddedQueue,
                                    !.embeddedAfter = v.embeddedQueue]],
          ret |-> FALSE, bayerFrame |-> 0, embeddedBuffer |-> 0]
    ELSE LET ts == Head(v.bayerQueue)
             m == MatchLoop(v.embeddedQueue, ts, <<>>)
             wait == MustWait(m.match, v.sensorMetadata, m.q)
             bq == IF wait THEN v.bayerQueue ELSE Tail(v.bayerQueue)
             found == [called |-> TRUE, ts |-> ts, bayer |-> v.bayerQueue,
                       embedded |-> v.embeddedQueue, ret |-> ~wait,
                       match |-> m.match, returned |-> m.returned,
                       bayerAfter |-> bq, embeddedAfter |-> m.q]
         IN  [v |-> [v EXCEPT !.embeddedQueue = m.q,
                              !.bayerQueue = bq,
                              !.events = ReturnBuffers(@, m.returned),
                              !.lastFind = found],
              ret |-> ~wait,
              bayerFrame |-> IF wait THEN 0 ELSE ts,
              embeddedBuffer |-> m.match]

PipelineBlockedUnlessBusy(st, rq, bq, eq, meta) ==
    st \notin {"Idle", "Busy"} \/ rq = <<>> \/ bq = <<>> \/ (eq = <<>> /\ meta)
\* tryRunPipeline, lines 903-905: nothing to do yet.
PipelineBlocked(st, rq, bq, eq, meta) ==
    st # "Idle" \/ rq = <<>> \/ bq = <<>> \/ (eq = <<>> /\ meta)

\* Vc4CameraData::tryRunPipeline.
tryRunPipeline(v) ==
    LET seen == [called |-> TRUE, state |-> v.state,
                 requests |-> v.requestQueue, bayer |-> v.bayerQueue,
                 embedded |-> v.embeddedQueue, signalled |-> FALSE]
        v0 == [v EXCEPT !.lastTry = seen]
    IN  IF PipelineBlocked(v.state, v.requestQueue, v.bayerQueue,
                           v.embeddedQueue, v.sensorMetadata)
        THEN v0
        ELSE LET f == findMatchingBuffers(v0)
             IN  IF ~f.ret
                 THEN f.v
                 ELSE [f.v EXCEPT
                         !.state = "Busy",
                         !.events = Append(@, PrepareEvent(f.bayerFrame,
                                                           f.embeddedBuffer)),
                         !.pending.prepare =
                             Append(@, [bayer |-> f.bayerFrame,
                                        embedded |-> f.embeddedBuffer]),
                         !.lastTry.signalled = TRUE]

\* CameraData::handleState: a request whose statistics the IPA has processed
\* and whose outputs are all back is completed and leaves the request queue,
\* and the pipeline is tried again. tryRunPipeline is tried in every state:
\* its own test is what keeps it from running.
handleState(v) ==
    LET done == /\ v.state = "IpaComplete"
                /\ v.requestQueue # <<>>
                /\ v.pending.isp \cap {"Output0", "Output1"} = {}
        v1 == IF done
              THEN [v EXCEPT !.state = "Idle",
                             !.requestQueue = Tail(@),
                             !.events = Append(@, Event("completeRequest", "",
                                                        Head(v.requestQueue)))]
              ELSE v
    IN  tryRunPipeline(v1)

\* Vc4CameraData::platformStop.
platformStop(v) == [v EXCEPT !.bayerQueue = <<>>, !.embeddedQueue = <<>>]

\* Vc4CameraData::unicamBufferDequeue.
unicamBufferDequeue(v, stream, ts) ==
    IF ~isRunning(v)
    THEN v
    ELSE IF stream = "Image"
         THEN handleState([v EXCEPT !.bayerQueue = Append(@, ts)])
         ELSE handleState([v EXCEPT !.embeddedQueue = Append(@, ts)])

\* Vc4CameraData::ispInputDequeue.
ispInputDequeue(v, buf) ==
    IF ~isRunning(v)
    THEN v
    ELSE handleState(handleStreamBuffer(v, "Image", buf))

IsStatsNever(stream) == FALSE
\* ispOutputDequeue, line 784: the buffer holds the ISP statistics.
IsStats(stream) == stream = "Stats"

\* Vc4CameraData::ispOutputDequeue.
ispOutputDequeue(v, stream, buf) ==
    IF ~isRunning(v)
    THEN v
    ELSE IF IsStats(stream)
         THEN handleState([v EXCEPT
                  !.events = Append(@, Event("signalProcessStats", "Stats",
                                             buf)),
                  !.pending.stats = @ \cup {buf}])
         ELSE handleState(handleStreamBuffer(v, stream, buf))

\* Vc4CameraData::processStatsComplete.
processStatsComplete(v, buf) ==
    IF ~isRunning(v)
    THEN v
    ELSE handleState([handleStreamBuffer(v, "Stats", buf)
                         EXCEPT !.state = "IpaComplete"])

\* Vc4CameraData::prepareIspComplete.
prepareIspComplete(v, buffers) ==
    IF ~isRunning(v)
    THEN v
    ELSE LET v1 == [v EXCEPT
                      !.events = Append(@, Event("queueBuffer", "Input",
                                                 buffers.bayer)),
                      !.pending.isp = IspStreams,
                      !.pending.job = buffers.bayer]
             v2 == IF v.sensorMetadata /\ buffers.embedded # 0
                   THEN handleStreamBuffer(v1, "Embedded", buffers.embedded)
                   ELSE v1
         IN  handleState(v2)

InstallCamera(v, op, arg) ==
    /\ state' = v.state
    /\ requestQueue' = v.requestQueue
    /\ bayerQueue' = v.bayerQueue
    /\ embeddedQueue' = v.embeddedQueue
    /\ pending' = v.pending
    /\ events' = v.events
    /\ lastTry' = v.lastTry
    /\ lastFind' = v.lastFind
    /\ vcOp' = [op |-> op, arg |-> arg, running |-> isRunning(CurCamera)]
    /\ UNCHANGED <<sensorMetadata, splitvars, bufvars>>

\* The camera is started once the callbacks of the last run are in.
Start ==
    /\ state = "Stopped"
    /\ pending.prepare = <<>> /\ pending.isp = {} /\ pending.stats = {}
    /\ InstallCamera([CurCamera EXCEPT !.state = "Idle"], "start", 0)
    /\ UNCHANGED clock

\* The camera is stopped: no request stays queued, and platformStop.
Stop ==
    /\ isRunning(CurCamera)
    /\ InstallCamera(platformStop([CurCamera EXCEPT !.state = "Stopped",
                                                    !.requestQueue = <<>>]),
                     "stop", 0)
    /\ UNCHANGED clock

\* The application queues a request.
QueueRequest ==
    /\ isRunning(CurCamera)
    /\ clock.seq < MaxRequests
    /\ clock' = [clock EXCEPT !.seq = @ + 1]
    /\ InstallCamera(handleState([CurCamera EXCEPT
                         !.requestQueue = Append(@, clock.seq + 1)]),
                     "queueRequest", clock.seq + 1)

\* Unicam delivers a frame or the embedded data of a frame.
UnicamBufferDequeue ==
    \E stream \in UnicamStreams, ts \in Timestamps :
        /\ stream = "Image" => ts > clock.bayer
        /\ stream = "Embedded" => ts > clock.embedded
        /\ clock' = IF stream = "Image" THEN [clock EXCEPT !.bayer = ts]
                                        ELSE [clock EXCEPT !.embedded = ts]
        /\ InstallCamera(unicamBufferDequeue(CurCamera, stream, ts),
                         "unicamBufferDequeue" \o stream, ts)

\* The IPA has prepared the ISP for the frame it was signalled.
PrepareIspComplete ==
    /\ pending.prepare # <<>>
    /\ InstallCamera(prepareIspComplete(
                         [CurCamera EXCEPT !.pending.prepare = Tail(@)],
                         Head(pending.prepare)),
                     "prepareIspComplete", Head(pending.prepare).bayer)
    /\ UNCHANGED clock

\* The ISP is done with its input buffer.
IspInputDequeue ==
    /\ "Input" \in pending.isp
    /\ InstallCamera(ispInputDequeue(
                         [CurCamera EXCEPT !.pending.isp = @ \ {"Input"}],
                         pending.job),
                     "ispInputDequeue", pending.job)
    /\ UNCHANGED clock

\* The ISP delivers one of its outputs.
IspOutputDequeue ==
    /\ \E stream \in pending.isp \cap IspOutputs :
         InstallCamera(ispOutputDequeue(
                           [CurCamera EXCEPT !.pending.isp = @ \ {stream}],
                           stream, pending.job),
                       "ispOutputDequeue" \o stream, pending.job)
    /\ UNCHANGED clock

\* The IPA is done with a statistics buffer.
ProcessStatsComplete ==
    /\ \E buf \in pending.stats :
         InstallCamera(processStatsComplete(
                           [CurCamera EXCEPT !.pending.stats = @ \ {buf}],
                           buf),
                       "processStatsComplete", buf)
    /\ UNCHANGED clock

NextPipeline ==
    \/ Start
    \/ Stop
    \/ QueueRequest
    \/ UnicamBufferDequeue
    \/ PrepareIspComplete
    \/ IspInputDequeue
    \/ IspOutputDequeue
    \/ ProcessStatsComplete

\* A camera with or without embedded sensor metadata, not yet started.
InitPipeline ==
    /\ Built
    /\ tracking = FALSE
    /\ tally = [s \in Splits |-> NoTally]
    /\ \E meta \in BOOLEAN : CameraData(meta)
    /\ Unconfigured

SpecPipeline == InitPipeline /\ [][NextPipeline]_vars

\* The signalPrepareIsp events among those of a step.
Signals(evs) == SelectSeq(evs, LAMBDA e : e.ev = "signalPrepareIsp")

\* What C23 asks of one step.
SingleFrameStep ==
    /\ Len(Signals(events')) <= 1
    /\ Len(Signals(events')) = 1 <=> lastTry'.signalled
    /\ lastTry'.signalled =>
         /\ lastTry'.called
         /\ lastTry'.state = "Idle"
         /\ lastTry'.requests # <<>>
         /\ lastTry'.bayer # <<>>
         /\ lastTry'.embedded # <<>> \/ ~sensorMetadata
         /\ state' = "Busy"
    /\ lastTry'.called => requestQueue' = lastTry'.requests
    /\ Len(pending'.prepare) <= 1

\* C23 (single frame in flight): a handler signals signalPrepareIsp at most
\* once, and only from a tryRunPipeline that found state_ Idle, a request and
\* a bayer frame queued, and an embedded buffer queued unless the sensor has
\* no metadata; the state is Busy when the handler returns, a tryRunPipeline
\* that finds any other state signals nothing, the IPA never holds two frames
\* to prepare, and the request queue is after tryRunPipeline what it was
\* before.
SingleFrame == [][SingleFrameStep]_vars

\* C23 witness: while one frame is in flight (Busy) a second bayer frame
\* arrived with a request queued and tryRunPipeline signalled nothing.
SingleFrameWitness ==
    /\ state = "Busy"
    /\ vcOp.op = "unicamBufferDequeueImage"
    /\ lastTry.called
    /\ ~lastTry.signalled
    /\ lastTry.requests # <<>>
    /\ Len(lastTry.bayer) = 1
    /\ ~sensorMetadata
    /\ events = <<>>

\* How many buffers at the front of q are older than ts.
OlderPrefix(q, ts) ==
    CHOOSE n \in 0..Len(q) :
        /\ \A i \in 1..n : q[i] < ts
        /\ n = Len(q) \/ q[n + 1] >= ts

\* The buffers of a step's returnBuffer events.
Returned(evs) ==
    LET r == SelectSeq(evs, LAMBDA e : e.ev = "returnBuffer")
    IN  [i \in 1..Len(r) |-> r[i].buf]

\* C24 (timestamp matching): a findMatchingBuffers that finds a bayer frame
\* with timestamp ts at the front returns to the driver exactly the embedded
\* buffers at the front of the queue that are older than ts, takes the next
\* one as the match when its timestamp is ts (so an embedded buffer with the
\* frame's timestamp anywhere in the queue is the match), leaves the newer
\* ones queued in order, and pops the front bayer frame, and only that, if
\* and only if it returns true.
TimestampMatching ==
    lastFind.called /\ lastFind.bayer # <<>> =>
        LET ts == Head(lastFind.bayer)
            q == lastFind.embedded
            k == OlderPrefix(q, ts)
            hit == k < Len(q) /\ q[k + 1] = ts
            rest == SubSeq(q, IF hit THEN k + 2 ELSE k + 1, Len(q))
        IN  /\ lastFind.ts = ts
            /\ lastFind.returned = SubSeq(q, 1, k)
            /\ Returned(events) = lastFind.returned
            /\ lastFind.match = IF hit THEN ts ELSE 0
            /\ (\E i \in 1..Len(q) : q[i] = ts) => lastFind.match = ts
            /\ lastFind.embeddedAfter = rest
            /\ embeddedQueue = rest
            /\ \A i \in 1..Len(rest) : rest[i] > ts
            /\ lastFind.ret <=> lastFind.bayerAfter = Tail(lastFind.bayer)
            /\ ~lastFind.ret => lastFind.bayerAfter = lastFind.bayer
            /\ bayerQueue = lastFind.bayerAfter

\* C24 witness: embedded buffers 1, 2 and 3 were queued and the front bayer
\* frame was 2: buffer 1 was returned, 2 is the match, 3 stays queued, and the
\* frame was popped.
TimestampMatchingWitness ==
    /\ lastFind.called
    /\ lastFind.ret
    /\ lastFind.ts = 2
    /\ lastFind.embedded = <<1, 2, 3>>
    /\ lastFind.returned = <<1>>
    /\ lastFind.match = 2
    /\ embeddedQueue = <<3>>
    /\ bayerQueue = <<>>

\* C25 (wait for late embedded data): with sensor metadata enabled, a
\* findMatchingBuffers that finds no embedded buffer for the front bayer frame
\* and has an empty embedded queue after returning the older buffers returns
\* false, leaves the bayer queue as it was and the state Idle with nothing
\* signalled; when it releases the frame without an embedded buffer, a
\* strictly newer embedded buffer is at the front of the embedded queue.
WaitForEmbedded ==
    sensorMetadata /\ lastFind.called /\ lastFind.bayer # <<>> =>
        /\ lastFind.match = 0 /\ lastFind.embeddedAfter = <<>> =>
               /\ ~lastFind.ret
               /\ bayerQueue = lastFind.bayer
               /\ lastTry.state = "Idle"
               /\ state = "Idle"
               /\ Signals(events) = <<>>
        /\ lastFind.ret /\ lastFind.match = 0 =>
               /\ embeddedQueue # <<>>
               /\ Head(embeddedQueue) > lastFind.ts
               /\ Signals(events) = <<PrepareEvent(lastFind.ts, 0)>>
        /\ lastFind.ret /\ lastFind.match # 0 =>
               Signals(events) = <<PrepareEvent(lastFind.ts, lastFind.ts)>>

\* C25 witness: the bayer frame 2 is at the front and only the embedded
\* buffer 1 was queued: it was returned, the frame stays queued and the
\* state is Idle.
WaitForEmbeddedWitness ==
    /\ sensorMetadata
    /\ lastFind.called
    /\ ~lastFind.ret
    /\ lastFind.ts = 2
    /\ lastFind.returned = <<1>>
    /\ embeddedQueue = <<>>
    /\ bayerQueue = <<2>>
    /\ requestQueue # <<>>
    /\ state = "Idle"

\* The events of a step, as a set.
EventSet(evs) == {evs[i] : i \in 1..Len(evs)}
\* The buffers a step handed back through handleStreamBuffer.
HandedBack(evs) == {e \in EventSet(evs) : e.ev = "handleStreamBuffer"}

\* What C26 asks of one step.
StatsHandBackStep ==
    /\ \A e \in HandedBack(events') :
         e.stream = "Stats" =>
             /\ vcOp'.op = "processStatsComplete"
             /\ vcOp'.arg = e.buf
             /\ e.buf \in pending.stats
    /\ vcOp'.op = "ispOutputDequeueStats" /\ vcOp'.running =>
         /\ Event("signalProcessStats", "Stats", vcOp'.arg) \in EventSet(events')
         /\ HandedBack(events') = {}
         /\ vcOp'.arg \in pending'.stats
    /\ \A stream \in {"Output0", "Output1"} :
         vcOp'.op = "ispOutputDequeue" \o stream /\ vcOp'.running =>
             /\ Event("handleStreamBuffer", stream, vcOp'.arg)
                    \in EventSet(events')
             /\ events'[1].ev = "handleStreamBuffer"
    /\ vcOp'.op = "processStatsComplete" /\ vcOp'.running =>
         events'[1] = Event("handleStreamBuffer", "Stats", vcOp'.arg)
    /\ /\ vcOp'.op \in {"ispOutputDequeueStats", "ispOutputDequeueOutput0",
                        "ispOutputDequeueOutput1", "processStatsComplete"}
       /\ ~vcOp'.running
       => events' = <<>>

\* C26 (stats buffer hand-back ordering): a statistics buffer is handed
\* back only by the processStatsComplete for that buffer, after
\* ispOutputDequeue passed it to the IPA; ispOutputDequeue signals the IPA for
\* a statistics buffer and hands nothing back, and hands every other output
\* back at once; while the camera is not running ispOutputDequeue and
\* processStatsComplete hand back and signal nothing.
StatsHandBack == [][StatsHandBackStep]_vars

\* C26 witness: the statistics buffer of frame 1 was dequeued while the
\* camera was running: the IPA was signalled and holds the buffer, nothing
\* was handed back.
StatsHandBackWitness ==
    /\ vcOp = [op |-> "ispOutputDequeueStats", arg |-> 1, running |-> TRUE]
    /\ events = <<Event("signalProcessStats", "Stats", 1)>>
    /\ pending.stats = {1}
    /\ state = "Busy"

\* ---------------------------------------------------------------------------
\* Buffer counts (vc4.cpp): platformPipelineConfigure and prepareBuffers.
\* unsigned int and int have WordBits bits.
\* ---------------------------------------------------------------------------

Word == 2 ^ WordBits
Unsigned == 0..(Word - 1)

\* Conversion of an unsigned int to int, and back.
ToInt(u) == IF u >= Word \div 2 THEN u - Word ELSE u
ToUnsigned(i) == i % Word

\* std::max<int>.
MaxInt(a, b) == IF a < b THEN b ELSE a

\* prepareBuffers, lines 250-251: std::max<int> of minUnicamBuffers and the
\* unsigned difference minBuffers - numRawBuffers, stored in an unsigned int.
UnicamImageBuffers(cfg, numRawBuffers) ==
    ToUnsigned(MaxInt(ToInt(cfg.minUnicamBuffers),
                      ToInt((cfg.minTotalUnicamBuffers - numRawBuffers) % Word)))

\* prepareBuffers, lines 258-260: numRawBuffers plus the same maximum, in
\* unsigned arithmetic.
IspInputBuffers(cfg, numRawBuffers) ==
    (numRawBuffers + UnicamImageBuffers(cfg, numRawBuffers)) % Word

\* PipelineHandlerVc4::prepareBuffers: the count passed to each stream.
prepareBuffers(cfg, numRawBuffers) ==
    [called |-> TRUE,
     raw |-> numRawBuffers,
     image |-> UnicamImageBuffers(cfg, numRawBuffers),
     input |-> IspInputBuffers(cfg, numRawBuffers),
     embedded |-> cfg.minTotalUnicamBuffers,
     other |-> 1]

\* The configuration files: each key is absent or holds a value; a buffer
\* count that is absent or not an unsigned int is -1.
Files ==
    {NoFile} \cup
    [present : {TRUE},
     version : {"none", "1.0", "2.0"},
     target : {"none", "bcm2835", "bcm2712"},
     min_unicam_buffers : {-1} \cup Unsigned,
     min_total_unicam_buffers : {-1} \cup Unsigned]

\* platformPipelineConfigure, lines 443-446.
DefaultConfig == [minUnicamBuffers |-> 2, minTotalUnicamBuffers |-> 4]

\* YamlObject::get<unsigned int>(defaultValue).
GetOr(value, defaultValue) == IF value = -1 THEN defaultValue ELSE value

\* Vc4CameraData::platformPipelineConfigure: the outcomes for a file, each
\* the stored config_ and what the call returns. With no target key the
\* error message reads *target of an empty optional (lines 459-460): the
\* call may return -EINVAL or not return at all.
platformPipelineConfigure(file) ==
    IF ~file.present
    THEN {[config |-> DefaultConfig, ret |-> "0"]}
    ELSE IF file.version # "1.0"
    THEN {[config |-> DefaultConfig, ret |-> "-EINVAL"]}
    ELSE IF file.target = "none"
    THEN {[config |-> DefaultConfig, ret |-> "-EINVAL"],
          [config |-> DefaultConfig, ret |-> "crash"]}
    ELSE IF file.target # "bcm2835"
    THEN {[config |-> DefaultConfig, ret |-> "-EINVAL"]}
    ELSE LET cfg == [minUnicamBuffers |->
                         GetOr(file.min_unicam_buffers,
                               DefaultConfig.minUnicamBuffers),
                     minTotalUnicamBuffers |->
                         GetOr(file.min_total_unicam_buffers,
                               DefaultConfig.minTotalUnicamBuffers)]
         IN  IF cfg.minTotalUnicamBuffers < cfg.minUnicamBuffers
             THEN {[config |-> cfg, ret |-> "-EINVAL"]}
             ELSE IF cfg.minTotalUnicamBuffers < 1
                  THEN {[config |-> cfg, ret |-> "-EINVAL"]}
                  ELSE {[config |-> cfg, ret |-> "0"]}

\* The pipeline handler configures the camera once, when it registers it.
PlatformPipelineConfigure ==
    /\ ~configRet.called
    /\ \E file \in Files :
         \E out \in platformPipelineConfigure(file) :
             /\ config' = out.config
             /\ configRet' = [called |-> TRUE, file |-> file, ret |-> out.ret]
    /\ UNCHANGED <<numBuffers, splitvars, pipevars>>

\* Buffers are prepared for a camera that was configured, for the buffer
\* count of the application's RAW stream (0 without one).
PrepareBuffers ==
    /\ configRet.ret = "0"
    /\ \E numRawBuffers \in Unsigned :
         numBuffers' = prepareBuffers(config, numRawBuffers)
    /\ UNCHANGED <<config, configRet, splitvars, pipevars>>

NextBuffers ==
    \/ PlatformPipelineConfigure
    \/ PrepareBuffers

InitBuffers ==
    /\ Built
    /\ tracking = FALSE
    /\ tally = [s \in Splits |-> NoTally]
    /\ CameraOff

SpecBuffers == InitBuffers /\ [][NextBuffers]_vars

\* C27 (Unicam buffer count): whatever the application's RAW buffer count r,
\* prepareBuffers asks for b buffers for the Unicam Image stream with
\* b >= minUnicamBuffers and b + r >= minTotalUnicamBuffers, and for r + b
\* buffers for the ISP Input stream.
UnicamBufferCount ==
    numBuffers.called =>
        LET r == numBuffers.raw
            b == numBuffers.image
        IN  /\ b >= config.minUnicamBuffers
            /\ b + r >= config.minTotalUnicamBuffers
            /\ numBuffers.input = r + b

\* The buffer counts a file asks for, its absent keys at their defaults.
Asked(file) ==
    [minUnicamBuffers |-> GetOr(file.min_unicam_buffers, 2),
     minTotalUnicamBuffers |-> GetOr(file.min_total_unicam_buffers, 4)]

\* A file platformPipelineConfigure is to reject.
Rejected(file) ==
    /\ file.present
    /\ \/ file.version # "1.0"
       \/ file.target # "bcm2835"
       \/ Asked(file).minTotalUnicamBuffers < 1
       \/ Asked(file).minTotalUnicamBuffers < Asked(file).minUnicamBuffers

\* C28 (buffer-count configuration validity): when platformPipelineConfigure
\* returns 0 the stored config has minTotalUnicamBuffers >= 1 and
\* minTotalUnicamBuffers >= minUnicamBuffers, with 2 and 4 when no file is
\* given; for a file whose version is not 1.0, whose target is not "bcm2835"
\* or whose values break either bound it returns -EINVAL.
ConfigValidity ==
    configRet.called =>
        /\ configRet.ret = "0" =>
               /\ config.minTotalUnicamBuffers >= 1
               /\ config.minTotalUnicamBuffers >= config.minUnicamBuffers
        /\ ~configRet.file.present =>
               /\ configRet.ret = "0"
               /\ config.minUnicamBuffers = 2
               /\ config.minTotalUnicamBuffers = 4
        /\ Rejected(configRet.file) => configRet.ret = "-EINVAL"

====
